---- MODULE Spec2Model ----
(***************************************************************************)
(* lms_backend: the schedule generator (league/services.py) and the result *)
(* state machine of Match and Game (core/models.py).                       *)
(*                                                                         *)
(* The specifications of this module:                                      *)
(*   SchedSpec  - one GenerateSchedule request, statement by statement     *)
(*   SchedFairSpec - the run of SchedSpec for an existing Schedule, where  *)
(*                a step that can be taken is taken                        *)
(*   Spec       - the Match / Game / roster rows under result requests     *)
(*   LineupSpec - a Match with lineups: calculate_race_to and completion   *)
(*   ConcSpec   - two Games of one Match completed by concurrent requests  *)
(*   FailSpec   - result requests whose last row write is refused          *)
(*   CreateSpec - concurrent ScheduleViewSet.create requests               *)
(*   PartialSpec - a Match completed while a race-to value is missing      *)
(*   SixSpec    - generate_schedule over six rosters, three shuffles       *)
(*   MemberSpec - TeamPlayer rows created and patched                      *)
(*   ChainSpec  - two Games completed in turn under one Match              *)
(***************************************************************************)
EXTENDS Integers, Sequences, FiniteSets, TLC

\* ------------------------------------------------------------------------
\* Bounds
\* ------------------------------------------------------------------------
MaxWeeks == 3                  \* schedule.num_weeks ranges over 0..MaxWeeks
TeamCounts == {0, 1, 2, 3, 4}  \* numbers of rosters in the season
StartDates == {0, 3}           \* schedule.start_date, as day numbers
MaxGamesTotal == 4             \* cap on a roster's games_won and games_lost
MatchScores == {0, 2}          \* scores written by a match request
MatchRaceTos == {2}            \* race-to values written by a match request
GameScores == {0, 1, 2}        \* scores written by a game request
Handicaps == {3, 4}            \* TeamPlayer.handicap values

NULL == -1                     \* None in an integer field
GameRaceTos == {NULL, 2}       \* race-to values a Game is created with
NoWinner == "None"             \* None in the winner field
NoSnapshot == [empty |-> TRUE] \* None in a JSON snapshot field
NoLineups == [empty |-> TRUE]  \* None in the lineups field

MaxLineupGames == 40           \* cap on games_won and games_lost in LineupSpec
HandicapLists == {<<>>, <<2, 2>>, <<5, 5>>, <<6, 5>>}
                               \* the handicaps of one side's lineup
LineupScores == {10, 20}       \* scores written when a lineup match completes

VARIABLES
    \* ---- schedule generation ----
    optimize,          \* interpreter runs with assert statements stripped (-O)
    schedule_exists,   \* Schedule.objects.get(id=schedule_id) finds a row
    num_teams,         \* len(self.teams); rosters are 1..num_teams in list order
    num_weeks,         \* schedule.num_weeks
    start_date,        \* schedule.start_date, as a day number
    all_matchups,      \* self.all_matchups: the matchups at the positions of
                       \* the shuffled list read so far, [0, matchup_index);
                       \* the rest is an unread permutation of the others
    home_away_tracker, \* self.home_away_tracker
    current_week,
    matchup_index,
    matches_for_night,
    teams_scheduled,
    match_nights,      \* MatchNight rows of the schedule (their dates)
    matches,           \* Match rows of the schedule, in creation order
    pc,                \* position inside GenerateScheduleView.post
    response,          \* HTTP status answered by the view
    \* ---- results ----
    match,             \* the Match row
    games,             \* the Game rows of that Match
    rosters,           \* the TeamSeason rows
    players,           \* the TeamPlayer rows
    last_op,           \* the request served last: its kind, its Game, the
                       \* status its row had before it, whether it raised
    \* ---- requests served concurrently ----
    in_flight,         \* per Game: the completion request being served, the
                       \* Game and the parent Match it holds in memory
    schedule_rows,     \* the Schedule rows, in insertion order
    creates,           \* per schedule-creation request: its position, its
                       \* season, its payload and its answer
    \* ---- roster membership ----
    team_players       \* the TeamPlayer rows of all seasons, in creation order

svars == <<optimize, schedule_exists, num_teams, num_weeks, start_date,
           all_matchups, home_away_tracker, current_week, matchup_index,
           matches_for_night, teams_scheduled, match_nights, matches, pc,
           response>>

rvars == <<match, games, rosters, players, last_op>>

cvars == <<in_flight, schedule_rows, creates, team_players>>

vars == <<svars, rvars, cvars>>

\* ------------------------------------------------------------------------
\* ScheduleService helpers
\* ------------------------------------------------------------------------
Teams(n) == 1..n

\* frozenset([team1.id, team2.id])
Matchup(t1, t2) == {t1, t2}

\* _generate_all_matchups before the shuffle: the nested loops over
\* self.teams with the match_history set, in list order.
RECURSIVE GenLoop(_, _, _, _, _)
GenLoop(n, i, j, history, acc) ==
    IF i > n THEN acc
    ELSE IF j > n THEN GenLoop(n, i + 1, 1, history, acc)
    ELSE IF i # j /\ Matchup(i, j) \notin history
         THEN GenLoop(n, i, j + 1, history \cup {Matchup(i, j)},
                      Append(acc, <<i, j>>))
         ELSE GenLoop(n, i, j + 1, history, acc)

GenerateAllMatchups(n) == GenLoop(n, 1, 1, {}, <<>>)

SeqToSet(s) == {s[k] : k \in 1..Len(s)}

\* start_date + timedelta(weeks=week_offset)
GetNextMatchDate(week_offset) == start_date + 7 * week_offset

\* `num_teams % 2 == (0, "...")': an int compared with a 2-tuple is False
IntEqualsTuple(i, t) == FALSE

AssertSkipped(n) == TRUE

AssertEven(n) == IntEqualsTuple(n % 2, <<0, "msg">>)

AlreadyScheduledFirstOnly(t1, t2, scheduled) == t1 \in scheduled

\* line 60: either roster already plays tonight
AlreadyScheduled(t1, t2, scheduled) == t1 \in scheduled \/ t2 \in scheduled

\* lines 64-68
HomeTeam(t1, t2, tracker) ==
    IF tracker[t1].home <= tracker[t1].away THEN t1 ELSE t2
AwayTeam(t1, t2, tracker) ==
    IF HomeTeam(t1, t2, tracker) = t1 THEN t2 ELSE t1

\* ------------------------------------------------------------------------
\* Rows of the result state machine as they are created
\* ------------------------------------------------------------------------
Rosters == {"r1", "r2", "r3"}
Players == {"p1", "p2"}
Games == {"g1"}

\* Match.objects.create(match_night, home_team, away_team): field defaults
NewMatch ==
    [home_team |-> "r1", away_team |-> "r2",
     home_score |-> NULL, away_score |-> NULL,
     home_race_to |-> NULL, away_race_to |-> NULL,
     winner |-> NoWinner, status |-> "Scheduled",
     team_snapshot |-> NoSnapshot, lineups |-> NoLineups]

\* Game row before its first save
NewGame(race_to) ==
    [home_player |-> "p1", away_player |-> "p2",
     home_race_to |-> race_to, away_race_to |-> race_to,
     home_score |-> NULL, away_score |-> NULL,
     winner |-> NoWinner, status |-> "Scheduled",
     player_snapshot |-> NoSnapshot]

\* TeamSeason defaults
NewRoster == [wins |-> 0, losses |-> 0, games_won |-> 0, games_lost |-> 0]

\* TeamPlayer defaults
NewPlayer(h) == [wins |-> 0, losses |-> 0, handicap |-> h]

NoOp == [op |-> "none", game |-> "none", before |-> "none", raised |-> FALSE]

ResultIdle ==
    /\ match = NewMatch
    /\ games = [g \in Games |-> NewGame(NULL)]
    /\ rosters = [r \in Rosters |-> NewRoster]
    /\ players = [p \in Players |-> NewPlayer(3)]
    /\ last_op = NoOp

\* no request is being served concurrently
RequestsIdle ==
    /\ in_flight = <<>>
    /\ schedule_rows = <<>>
    /\ creates = <<>>
    /\ team_players = <<>>

\* ------------------------------------------------------------------------
\* Schedule generation: Init and actions
\* ------------------------------------------------------------------------
SchedInit ==
    /\ optimize \in BOOLEAN
    /\ schedule_exists \in BOOLEAN
    /\ num_teams \in TeamCounts
    /\ num_weeks \in 0..MaxWeeks
    /\ start_date \in StartDates
    /\ all_matchups = {}
    /\ home_away_tracker = <<>>
    /\ current_week = 0
    /\ matchup_index = 0
    /\ matches_for_night = 0
    /\ teams_scheduled = {}
    /\ match_nights = {}
    /\ matches = <<>>
    /\ pc = "post"
    /\ response = NULL
    /\ ResultIdle
    /\ RequestsIdle

\* GenerateScheduleView.post up to the call of generate_schedule:
\* Schedule.objects.get and ScheduleService.__init__
Post ==
    /\ pc = "post"
    /\ IF schedule_exists
       THEN /\ home_away_tracker' =
                   [t \in Teams(num_teams) |-> [home |-> 0, away |-> 0]]
            /\ all_matchups' = {}
            /\ pc' = "assert"
            /\ UNCHANGED response
       ELSE /\ response' = 404
            /\ pc' = "done"
            /\ UNCHANGED <<home_away_tracker, all_matchups>>
    /\ UNCHANGED <<rvars, cvars>>
    /\ UNCHANGED <<optimize, schedule_exists, num_teams, num_weeks, start_date,
                   current_week, matchup_index, matches_for_night,
                   teams_scheduled, match_nights, matches>>

\* generate_schedule lines 32-39; the AssertionError reaches the view's
\* `except Exception' and is answered 500
AssertStep ==
    /\ pc = "assert"
    /\ IF optimize \/ AssertEven(num_teams)
       THEN /\ pc' = "week"
            /\ UNCHANGED response
       ELSE /\ pc' = "done"
            /\ response' = 500
    /\ current_week' = 0
    /\ matchup_index' = 0
    /\ UNCHANGED <<rvars, cvars>>
    /\ UNCHANGED <<optimize, schedule_exists, num_teams, num_weeks, start_date,
                   all_matchups, home_away_tracker, matches_for_night,
                   teams_scheduled, match_nights, matches>>

\* outer loop head, lines 41-49 (get_or_create of the MatchNight)
StartWeek ==
    /\ pc = "week"
    /\ current_week < num_weeks
    /\ match_nights' = match_nights \cup {GetNextMatchDate(current_week)}
    /\ matches_for_night' = 0
    /\ teams_scheduled' = {}
    /\ pc' = "night"
    /\ UNCHANGED <<rvars, cvars>>
    /\ UNCHANGED <<optimize, schedule_exists, num_teams, num_weeks, start_date,
                   all_matchups, home_away_tracker, current_week,
                   matchup_index, matches, response>>

\* outer loop exit and the view's 201 answer
Return ==
    /\ pc = "week"
    /\ ~(current_week < num_weeks)
    /\ pc' = "done"
    /\ response' = 201
    /\ UNCHANGED <<rvars, cvars>>
    /\ UNCHANGED <<optimize, schedule_exists, num_teams, num_weeks, start_date,
                   all_matchups, home_away_tracker, current_week,
                   matchup_index, matches_for_night, teams_scheduled,
                   match_nights, matches>>

EndWeekEarly ==
    /\ pc = "night"
    /\ ~(matches_for_night + 1 < num_teams \div 2)
    /\ current_week' = current_week + 1
    /\ pc' = "week"
    /\ UNCHANGED <<rvars, cvars>>
    /\ UNCHANGED <<optimize, schedule_exists, num_teams, num_weeks, start_date,
                   all_matchups, home_away_tracker, matchup_index,
                   matches_for_night, teams_scheduled, match_nights, matches,
                   response>>

\* inner loop exit, line 87
EndWeek ==
    /\ pc = "night"
    /\ ~(matches_for_night < num_teams \div 2)
    /\ current_week' = current_week + 1
    /\ pc' = "week"
    /\ UNCHANGED <<rvars, cvars>>
    /\ UNCHANGED <<optimize, schedule_exists, num_teams, num_weeks, start_date,
                   all_matchups, home_away_tracker, matchup_index,
                   matches_for_night, teams_scheduled, match_nights, matches,
                   response>>

ExhaustedNever == FALSE

\* lines 53-58: the reshuffle on exhaustion and the read of
\* all_matchups[matchup_index].  random.shuffle leaves any permutation; the
\* index only moves forward between two shuffles, so the position read is
\* always a new one and holds any matchup not read since the last shuffle.
Exhausted == matchup_index >= Len(GenerateAllMatchups(num_teams))
ReadIndex == IF Exhausted THEN 0 ELSE matchup_index
AlreadyRead == IF Exhausted THEN {} ELSE all_matchups
ReadChoices == SeqToSet(GenerateAllMatchups(num_teams)) \ AlreadyRead

\* lines 60-62
SkipMatchup ==
    /\ pc = "night"
    /\ matches_for_night < num_teams \div 2
    /\ \E m \in ReadChoices :
         /\ AlreadyScheduled(m[1], m[2], teams_scheduled)
         /\ all_matchups' = AlreadyRead \cup {m}
         /\ matchup_index' = ReadIndex + 1
    /\ UNCHANGED <<rvars, cvars>>
    /\ UNCHANGED <<optimize, schedule_exists, num_teams, num_weeks, start_date,
                   home_away_tracker, current_week, matches_for_night,
                   teams_scheduled, match_nights, matches, pc, response>>

\* lines 64-85
CreateMatch ==
    /\ pc = "night"
    /\ matches_for_night < num_teams \div 2
    /\ \E m \in ReadChoices :
         LET home == HomeTeam(m[1], m[2], home_away_tracker)
             away == AwayTeam(m[1], m[2], home_away_tracker)
         IN /\ ~AlreadyScheduled(m[1], m[2], teams_scheduled)
            /\ all_matchups' = AlreadyRead \cup {m}
            /\ matches' = Append(matches,
                   [match_night |-> GetNextMatchDate(current_week),
                    home_team |-> home, away_team |-> away,
                    status |-> "Scheduled"])
            /\ home_away_tracker' =
                   [home_away_tracker EXCEPT ![home].home = @ + 1,
                                             ![away].away = @ + 1]
            /\ matches_for_night' = matches_for_night + 1
            /\ teams_scheduled' = teams_scheduled \cup {home, away}
            /\ matchup_index' = ReadIndex + 1
    /\ UNCHANGED <<rvars, cvars>>
    /\ UNCHANGED <<optimize, schedule_exists, num_teams, num_weeks, start_date,
                   current_week, match_nights, pc, response>>

SchedNext ==
    \/ Post
    \/ AssertStep
    \/ StartWeek
    \/ Return
    \/ EndWeek
    \/ SkipMatchup
    \/ CreateMatch

SchedSpec == SchedInit /\ [][SchedNext]_vars

\* the request is served by one thread that runs the view and
\* generate_schedule statement after statement: a step that can be taken is
\* taken
FairInit == SchedInit /\ schedule_exists /\ start_date = 0

SchedFairSpec == FairInit /\ [][SchedNext]_vars /\ WF_vars(SchedNext)

\* ------------------------------------------------------------------------
\* generate_schedule over six rosters, self.all_matchups held as the list
\* random.shuffle left, each shuffle leaving one of three permutations
\* ------------------------------------------------------------------------
SixTeamCounts == {6}
SixWeekCounts == {4}

ShuffleA ==
    <<
      <<1, 2>>, <<5, 6>>, <<4, 5>>, <<2, 5>>, <<1, 6>>,
      <<3, 4>>, <<1, 4>>, <<1, 5>>, <<3, 5>>, <<2, 4>>,
      <<2, 6>>, <<4, 6>>, <<2, 3>>, <<3, 6>>, <<1, 3>>
    >>

ShuffleB ==
    <<
      <<3, 4>>, <<2, 6>>, <<5, 6>>, <<2, 3>>, <<3, 5>>,
      <<1, 6>>, <<4, 6>>, <<4, 5>>, <<1, 3>>, <<1, 4>>,
      <<2, 5>>, <<1, 5>>, <<1, 2>>, <<3, 6>>, <<2, 4>>
    >>

ShuffleC ==
    <<
      <<2, 6>>, <<1, 5>>, <<2, 5>>, <<2, 3>>, <<3, 5>>,
      <<3, 6>>, <<2, 4>>, <<1, 4>>, <<3, 4>>, <<4, 5>>,
      <<1, 6>>, <<4, 6>>, <<1, 3>>, <<5, 6>>, <<1, 2>>
    >>

ShuffleOutcomes == {ShuffleA, ShuffleB, ShuffleC}

\* GenerateScheduleView.post up to the call of generate_schedule, with the
\* shuffle of line 27
ListPost ==
    /\ pc = "post"
    /\ home_away_tracker' =
           [t \in Teams(num_teams) |-> [home |-> 0, away |-> 0]]
    /\ all_matchups' \in ShuffleOutcomes
    /\ pc' = "assert"
    /\ UNCHANGED <<rvars, cvars>>
    /\ UNCHANGED <<optimize, schedule_exists, num_teams, num_weeks, start_date,
                   current_week, matchup_index, matches_for_night,
                   teams_scheduled, match_nights, matches, response>>

\* lines 53-56: the list read from, reshuffled when the index has run out
ListExhausted == matchup_index >= Len(all_matchups)
ListIndex == IF ListExhausted THEN 0 ELSE matchup_index
ListChoices == IF ListExhausted THEN ShuffleOutcomes ELSE {all_matchups}

\* lines 58-62
ListSkip ==
    /\ pc = "night"
    /\ matches_for_night < num_teams \div 2
    /\ \E list \in ListChoices :
         LET m == list[ListIndex + 1]
         IN /\ AlreadyScheduled(m[1], m[2], teams_scheduled)
            /\ all_matchups' = list
            /\ matchup_index' = ListIndex + 1
    /\ UNCHANGED <<rvars, cvars>>
    /\ UNCHANGED <<optimize, schedule_exists, num_teams, num_weeks, start_date,
                   home_away_tracker, current_week, matches_for_night,
                   teams_scheduled, match_nights, matches, pc, response>>

\* lines 58 and 64-85
ListCreate ==
    /\ pc = "night"
    /\ matches_for_night < num_teams \div 2
    /\ \E list \in ListChoices :
         LET m == list[ListIndex + 1]
             home == HomeTeam(m[1], m[2], home_away_tracker)
             away == AwayTeam(m[1], m[2], home_away_tracker)
         IN /\ ~AlreadyScheduled(m[1], m[2], teams_scheduled)
            /\ all_matchups' = list
            /\ matches' = Append(matches,
                   [match_night |-> GetNextMatchDate(current_week),
                    home_team |-> home, away_team |-> away,
                    status |-> "Scheduled"])
            /\ home_away_tracker' =
                   [home_away_tracker EXCEPT ![home].home = @ + 1,
                                             ![away].away = @ + 1]
            /\ matches_for_night' = matches_for_night + 1
            /\ teams_scheduled' = teams_scheduled \cup {home, away}
            /\ matchup_index' = ListIndex + 1
    /\ UNCHANGED <<rvars, cvars>>
    /\ UNCHANGED <<optimize, schedule_exists, num_teams, num_weeks, start_date,
                   current_week, match_nights, pc, response>>

SixInit ==
    /\ optimize \in BOOLEAN
    /\ schedule_exists = TRUE
    /\ num_teams \in SixTeamCounts
    /\ num_weeks \in SixWeekCounts
    /\ start_date \in StartDates
    /\ all_matchups = <<>>
    /\ home_away_tracker = <<>>
    /\ current_week = 0
    /\ matchup_index = 0
    /\ matches_for_night = 0
    /\ teams_scheduled = {}
    /\ match_nights = {}
    /\ matches = <<>>
    /\ pc = "post"
    /\ response = NULL
    /\ ResultIdle
    /\ RequestsIdle

SixNext ==
    \/ ListPost
    \/ AssertStep
    \/ StartWeek
    \/ Return
    \/ EndWeek
    \/ ListSkip
    \/ ListCreate

SixSpec == SixInit /\ [][SixNext]_vars

\* ------------------------------------------------------------------------
\* Match: set_team_snapshot, update_match_winner, update_team_records, save
\* ------------------------------------------------------------------------
\* one side of Match.set_team_snapshot
TeamRecord(r, rs) ==
    [team_name |-> r, wins |-> rs[r].wins, losses |-> rs[r].losses,
     captain |-> r, games_won |-> rs[r].games_won,
     games_lost |-> rs[r].games_lost]

SetTeamSnapshot(m, rs) ==
    [m EXCEPT !.team_snapshot =
        [home_team |-> TeamRecord(m.home_team, rs),
         away_team |-> TeamRecord(m.away_team, rs)]]

OtherScore(m, r) == IF r = m.home_team THEN m.away_score ELSE m.home_score

\* the score update_team_records adds for a roster: its own side's score
OwnScore(m, r) == IF r = m.home_team THEN m.home_score ELSE m.away_score

UpdateTeamRecords(m, rs, winning_team, losing_team) ==
    [rs EXCEPT ![winning_team].wins = @ + 1,
               ![winning_team].games_won = @ + OwnScore(m, winning_team),
               ![losing_team].losses = @ + 1,
               ![losing_team].games_lost = @ + OwnScore(m, losing_team)]

BothScoresSet(x) == x.home_score # NULL /\ x.away_score # NULL

\* `score >= race_to' with race_to None raises TypeError; the second
\* comparison is evaluated only when the first is false
UpdateMatchWinnerRaises(m) ==
    /\ BothScoresSet(m)
    /\ \/ m.home_race_to = NULL
       \/ /\ m.home_score < m.home_race_to
          /\ m.away_race_to = NULL

DecideMatchWinnerAwayFirst(m) ==
    IF ~BothScoresSet(m) THEN NoWinner
    ELSE IF m.away_score >= m.away_race_to THEN "away"
    ELSE IF m.home_score >= m.home_race_to THEN "home"
    ELSE NoWinner

\* the winner update_match_winner assigns, NoWinner when it assigns none
DecideMatchWinner(m) ==
    IF ~BothScoresSet(m) THEN NoWinner
    ELSE IF m.home_score >= m.home_race_to THEN "home"
    ELSE IF m.away_score >= m.away_race_to THEN "away"
    ELSE NoWinner

\* update_match_winner on a match for which it does not raise
UpdateMatchWinner(m, rs) ==
    LET w == DecideMatchWinner(m)
    IN IF w = "home"
       THEN [match |-> [m EXCEPT !.winner = "home"],
             rosters |-> UpdateTeamRecords(m, rs, m.home_team, m.away_team)]
       ELSE IF w = "away"
       THEN [match |-> [m EXCEPT !.winner = "away"],
             rosters |-> UpdateTeamRecords(m, rs, m.away_team, m.home_team)]
       ELSE [match |-> m, rosters |-> rs]

MatchSaveSnapshotAfter(m, rs) ==
    IF m.status = "completed"
    THEN IF UpdateMatchWinnerRaises(m)
         THEN [raised |-> TRUE, match |-> m, rosters |-> rs]
         ELSE LET r == UpdateMatchWinner(m, rs)
              IN [raised |-> FALSE,
                  match |-> SetTeamSnapshot(r.match, r.rosters),
                  rosters |-> r.rosters]
    ELSE [raised |-> FALSE, match |-> m, rosters |-> rs]

\* Match.save: the rows written, or raised with nothing written
MatchSave(m, rs) ==
    IF m.status = "completed"
    THEN LET snap == SetTeamSnapshot(m, rs)
         IN IF UpdateMatchWinnerRaises(snap)
            THEN [raised |-> TRUE, match |-> m, rosters |-> rs]
            ELSE LET r == UpdateMatchWinner(snap, rs)
                 IN [raised |-> FALSE, match |-> r.match,
                     rosters |-> r.rosters]
    ELSE [raised |-> FALSE, match |-> m, rosters |-> rs]

\* ------------------------------------------------------------------------
\* Game: set_player_snapshot, update_game_winner, save
\* ------------------------------------------------------------------------
PlayerRecord(p, ps) ==
    [player_name |-> p, wins |-> ps[p].wins, losses |-> ps[p].losses,
     handicap |-> ps[p].handicap]

SetPlayerSnapshot(game, ps) ==
    [game EXCEPT !.player_snapshot =
        [home_player |-> PlayerRecord(game.home_player, ps),
         away_player |-> PlayerRecord(game.away_player, ps)]]

\* lines 373-376
DefaultRaceTo(game) ==
    [game EXCEPT !.home_race_to = IF @ = NULL THEN 1 ELSE @,
                 !.away_race_to = IF @ = NULL THEN 1 ELSE @]

WinnerUndecidedIgnoringWinner(game) == BothScoresSet(game)

\* lines 335-337
WinnerUndecided(game) == game.winner = NoWinner /\ BothScoresSet(game)

DecideGameWinnerAwayFirst(game) ==
    IF game.away_score >= game.away_race_to THEN "away"
    ELSE IF game.home_score >= game.home_race_to THEN "home"
    ELSE "tie"

\* lines 343-350
DecideGameWinner(game) ==
    IF game.home_score >= game.home_race_to THEN "home"
    ELSE IF game.away_score >= game.away_race_to THEN "away"
    ELSE "tie"

ScoreMatchRaw(m, game, w) ==
    LET m0 == [m EXCEPT !.home_score = IF @ = NULL THEN 0 ELSE @,
                        !.away_score = IF @ = NULL THEN 0 ELSE @]
    IN IF w = "home" THEN [m0 EXCEPT !.home_score = @ + game.home_score]
       ELSE IF w = "away" THEN [m0 EXCEPT !.away_score = @ + game.away_score]
       ELSE m0

\* lines 338-348: the parent match's scores in memory
ScoreMatch(m, game, w) ==
    LET m0 == [m EXCEPT !.home_score = IF @ = NULL THEN 0 ELSE @,
                        !.away_score = IF @ = NULL THEN 0 ELSE @]
    IN IF w = "home" THEN [m0 EXCEPT !.home_score = @ + 1]
       ELSE IF w = "away" THEN [m0 EXCEPT !.away_score = @ + 1]
       ELSE m0

UpdateGameWinnerChained(game, m, rs) ==
    IF WinnerUndecided(game)
    THEN LET w == DecideGameWinner(game)
             sm == ScoreMatch(m, game, w)
             reached == \/ sm.home_race_to # NULL /\
                              sm.home_score >= sm.home_race_to
                        \/ sm.away_race_to # NULL /\
                              sm.away_score >= sm.away_race_to
             sv == MatchSave(IF reached
                             THEN [sm EXCEPT !.status = "completed"]
                             ELSE sm, rs)
         IN [raised |-> sv.raised, game |-> [game EXCEPT !.winner = w],
             match |-> sv.match, rosters |-> sv.rosters]
    ELSE [raised |-> FALSE, game |-> game, match |-> m, rosters |-> rs]

UpdateGameWinner(game, m, rs) ==
    IF WinnerUndecided(game)
    THEN LET w == DecideGameWinner(game)
             sv == MatchSave(ScoreMatch(m, game, w), rs)
         IN [raised |-> sv.raised, game |-> [game EXCEPT !.winner = w],
             match |-> sv.match, rosters |-> sv.rosters]
    ELSE [raised |-> FALSE, game |-> game, match |-> m, rosters |-> rs]

\* Game.save
GameSave(game, m, rs, ps) ==
    LET g0 == DefaultRaceTo(game)
    IN IF g0.status = "completed"
       THEN UpdateGameWinner(SetPlayerSnapshot(g0, ps), m, rs)
       ELSE [raised |-> FALSE, game |-> g0, match |-> m, rosters |-> rs]

\* ------------------------------------------------------------------------
\* Result requests
\* ------------------------------------------------------------------------
WithinCaps(rs) ==
    \A r \in Rosters :
        rs[r].games_won <= MaxGamesTotal /\ rs[r].games_lost <= MaxGamesTotal

\* a request that loads game g, assigns the given fields and saves it
GameRequest(g, loaded) ==
    LET sv == GameSave(loaded, match, rosters, players)
    IN /\ WithinCaps(sv.rosters)
       /\ last_op' = [op |-> "game_save", game |-> g,
                     before |-> games[g].status, raised |-> sv.raised]
       /\ IF sv.raised
          THEN UNCHANGED <<match, games, rosters>>
          ELSE /\ games' = [games EXCEPT ![g] = sv.game]
               /\ match' = sv.match
               /\ rosters' = sv.rosters
       /\ UNCHANGED players
       /\ UNCHANGED <<svars, cvars>>

\* a request that loads the match, assigns the given fields and saves it
MatchRequest(loaded) ==
    LET sv == MatchSave(loaded, rosters)
    IN /\ WithinCaps(sv.rosters)
       /\ last_op' = [op |-> "match_save", game |-> "none",
                     before |-> match.status, raised |-> sv.raised]
       /\ IF sv.raised
          THEN UNCHANGED <<match, rosters>>
          ELSE /\ match' = sv.match
               /\ rosters' = sv.rosters
       /\ UNCHANGED <<games, players>>
       /\ UNCHANGED <<svars, cvars>>

\* the game is marked completed with its two scores
CompleteGame ==
    \E g \in Games : \E hs \in GameScores : \E as \in GameScores :
        GameRequest(g, [games[g] EXCEPT !.status = "completed",
                                        !.home_score = hs,
                                        !.away_score = as])

\* the game is saved again with no field changed
SaveGame == \E g \in Games : GameRequest(g, games[g])

\* the match is marked completed with its two scores
CompleteMatch ==
    \E hs \in MatchScores : \E as \in MatchScores :
        MatchRequest([match EXCEPT !.status = "completed",
                                   !.home_score = hs,
                                   !.away_score = as])

\* the race-to values of the match are written
SetMatchRaceTo ==
    \E hr \in MatchRaceTos : \E ar \in MatchRaceTos :
        MatchRequest([match EXCEPT !.home_race_to = hr, !.away_race_to = ar])

\* the match is saved again with no result field changed
SaveMatch == MatchRequest(match)

\* a TeamPlayer's handicap is edited
UpdateTeamPlayer ==
    /\ \E p \in Players : \E h \in Handicaps :
         /\ players[p].handicap # h
         /\ players' = [players EXCEPT ![p].handicap = h]
    /\ last_op' = [op |-> "player_update", game |-> "none",
                   before |-> "none", raised |-> FALSE]
    /\ UNCHANGED <<match, games, rosters>>
    /\ UNCHANGED <<svars, cvars>>

SchedIdle ==
    /\ optimize = FALSE
    /\ schedule_exists = TRUE
    /\ num_teams = 0
    /\ num_weeks = 0
    /\ start_date = 0
    /\ all_matchups = {}
    /\ home_away_tracker = <<>>
    /\ current_week = 0
    /\ matchup_index = 0
    /\ matches_for_night = 0
    /\ teams_scheduled = {}
    /\ match_nights = {}
    /\ matches = <<>>
    /\ pc = "done"
    /\ response = NULL

Init ==
    /\ SchedIdle
    /\ match = NewMatch
    /\ games \in [Games -> {NewGame(rt) : rt \in GameRaceTos}]
    /\ rosters = [r \in Rosters |-> NewRoster]
    /\ players = [p \in Players |-> NewPlayer(3)]
    /\ last_op = NoOp
    /\ RequestsIdle

Next ==
    \/ CompleteGame
    \/ SaveGame
    \/ CompleteMatch
    \/ SetMatchRaceTo
    \/ SaveMatch
    \/ UpdateTeamPlayer

Spec == Init /\ [][Next]_vars

\* ------------------------------------------------------------------------
\* Match.calculate_race_to: race-to values from the lineups
\* ------------------------------------------------------------------------
Lineups ==
    {NoLineups} \cup
    {[home_team |-> h, away_team |-> a] :
        h \in HandicapLists, a \in HandicapLists}

\* sum(player['handicap'] for player in side)
RECURSIVE SumHandicaps(_)
SumHandicaps(side) ==
    IF side = <<>> THEN 0 ELSE Head(side) + SumHandicaps(Tail(side))

RaceToUncapped(s) == 30 - s

\* max(20, 30 - s)
RaceTo(s) == IF 20 >= 30 - s THEN 20 ELSE 30 - s

\* lines 249-255: both race-to values assigned from the lineups
AssignRaceTo(m) ==
    [m EXCEPT !.home_race_to = RaceTo(SumHandicaps(m.lineups.home_team)),
              !.away_race_to = RaceTo(SumHandicaps(m.lineups.away_team))]

WithinLineupCaps(rs) ==
    \A r \in Rosters :
        rs[r].games_won <= MaxLineupGames /\ rs[r].games_lost <= MaxLineupGames

\* a call that has the match in hand, assigns the given fields and saves it
LineupRequest(op, loaded) ==
    LET sv == MatchSave(loaded, rosters)
    IN /\ WithinLineupCaps(sv.rosters)
       /\ last_op' = [op |-> op, game |-> "none",
                     before |-> match.status, raised |-> sv.raised]
       /\ IF sv.raised
          THEN UNCHANGED <<match, rosters>>
          ELSE /\ match' = sv.match
               /\ rosters' = sv.rosters
       /\ UNCHANGED <<games, players>>
       /\ UNCHANGED <<svars, cvars>>

\* match.calculate_race_to()
CalculateRaceTo ==
    IF match.lineups # NoLineups
    THEN LineupRequest("calculate_race_to", AssignRaceTo(match))
    ELSE /\ last_op' = [op |-> "calculate_race_to", game |-> "none",
                        before |-> match.status, raised |-> FALSE]
         /\ UNCHANGED <<match, games, rosters, players>>
         /\ UNCHANGED <<svars, cvars>>

\* the match is marked completed with its two scores
CompleteLineupMatch ==
    \E hs \in LineupScores : \E as \in LineupScores :
        LineupRequest("complete_match",
                      [match EXCEPT !.status = "completed",
                                    !.home_score = hs,
                                    !.away_score = as])

LineupInit ==
    /\ SchedIdle
    /\ match \in {[NewMatch EXCEPT !.lineups = l] : l \in Lineups}
    /\ games = [g \in Games |-> NewGame(NULL)]
    /\ rosters = [r \in Rosters |-> NewRoster]
    /\ players = [p \in Players |-> NewPlayer(3)]
    /\ last_op = NoOp
    /\ RequestsIdle

LineupNext ==
    \/ CalculateRaceTo
    \/ CompleteLineupMatch

LineupSpec == LineupInit /\ [][LineupNext]_vars

\* ------------------------------------------------------------------------
\* Two Games of the Match completed by concurrent requests
\* ------------------------------------------------------------------------
ConcGames == {"g1", "g2"}

\* line 338: the request holds the Game with its new status and scores;
\* update_game_winner reads self.match, which loads the parent Match row
LoadMatch(g) ==
    /\ in_flight[g].pc = "idle"
    /\ \E hs \in GameScores : \E as \in GameScores :
          in_flight' = [in_flight EXCEPT ![g] =
              [pc |-> "loaded",
               game |-> [games[g] EXCEPT !.status = "completed",
                                         !.home_score = hs,
                                         !.away_score = as],
               match |-> match]]
    /\ UNCHANGED <<svars, rvars, schedule_rows, creates, team_players>>

\* lines 338-352 and 382: the scores of the Match in memory are raised,
\* self.match.save() writes every field of it, then the Game row is written
WriteBack(g) ==
    /\ in_flight[g].pc = "loaded"
    /\ LET sv == GameSave(in_flight[g].game, in_flight[g].match,
                          rosters, players)
       IN /\ last_op' = [op |-> "game_save", game |-> g,
                        before |-> games[g].status, raised |-> sv.raised]
          /\ IF sv.raised
             THEN UNCHANGED <<match, games, rosters>>
             ELSE /\ games' = [games EXCEPT ![g] = sv.game]
                  /\ match' = sv.match
                  /\ rosters' = sv.rosters
    /\ in_flight' = [in_flight EXCEPT ![g].pc = "done"]
    /\ UNCHANGED <<players, svars, schedule_rows, creates, team_players>>

ConcInit ==
    /\ SchedIdle
    /\ match = NewMatch
    /\ games \in [ConcGames -> {NewGame(rt) : rt \in GameRaceTos}]
    /\ rosters = [r \in Rosters |-> NewRoster]
    /\ players = [p \in Players |-> NewPlayer(3)]
    /\ last_op = NoOp
    /\ in_flight = [g \in ConcGames |->
                       [pc |-> "idle", game |-> games[g], match |-> match]]
    /\ schedule_rows = <<>>
    /\ creates = <<>>
    /\ team_players = <<>>

ConcNext ==
    \/ \E g \in ConcGames : LoadMatch(g)
    \/ \E g \in ConcGames : WriteBack(g)

ConcSpec == ConcInit /\ [][ConcNext]_vars

\* ------------------------------------------------------------------------
\* Result requests whose last row write is refused by the database
\* ------------------------------------------------------------------------
\* Game.save with super().save() of line 382 raising: self.match.save() of
\* line 352 and the roster saves of lines 302-303 have already been written
GameWriteFails(g, loaded) ==
    LET sv == GameSave(loaded, match, rosters, players)
    IN /\ ~sv.raised
       /\ WithinCaps(sv.rosters)
       /\ sv.match.home_score <= MaxGamesTotal
       /\ sv.match.away_score <= MaxGamesTotal
       /\ last_op' = [op |-> "game_save", game |-> g,
                     before |-> games[g].status, raised |-> TRUE]
       /\ match' = sv.match
       /\ rosters' = sv.rosters
       /\ UNCHANGED <<games, players>>
       /\ UNCHANGED <<svars, cvars>>

\* Match.save with super().save() of line 315 raising: winning_team.save()
\* and losing_team.save() of lines 302-303 have already been written
MatchWriteFails(loaded) ==
    LET sv == MatchSave(loaded, rosters)
    IN /\ ~sv.raised
       /\ WithinCaps(sv.rosters)
       /\ last_op' = [op |-> "match_save", game |-> "none",
                     before |-> match.status, raised |-> TRUE]
       /\ rosters' = sv.rosters
       /\ UNCHANGED <<match, games, players>>
       /\ UNCHANGED <<svars, cvars>>

CompleteGameWriteFails ==
    \E g \in Games : \E hs \in GameScores : \E as \in GameScores :
        GameWriteFails(g, [games[g] EXCEPT !.status = "completed",
                                           !.home_score = hs,
                                           !.away_score = as])

CompleteMatchWriteFails ==
    \E hs \in MatchScores : \E as \in MatchScores :
        MatchWriteFails([match EXCEPT !.status = "completed",
                                      !.home_score = hs,
                                      !.away_score = as])

FailNext ==
    \/ SetMatchRaceTo
    \/ CompleteMatch
    \/ CompleteGameWriteFails
    \/ CompleteMatchWriteFails

FailSpec == Init /\ [][FailNext]_vars

\* ------------------------------------------------------------------------
\* ScheduleViewSet.create under concurrent requests
\* ------------------------------------------------------------------------
Seasons == {"s1", "s2"}             \* the Season rows
SeasonIds == Seasons \cup {"s0"}    \* season_id of the URL; s0 has no row
CreateRequests == {"q1", "q2", "q3"}
ScheduleWeeks == {NULL, 2}          \* num_weeks of the payload, NULL: absent

NoCreate ==
    [pc |-> "idle", season |-> "none", num_weeks |-> NULL, response |-> NULL]

\* views.py line 138: hasattr(season, 'schedule') queries the Schedule rows
HasSchedule(rows, season) ==
    \E k \in 1..Len(rows) : rows[k].season = season

UniqueViolationNever(rows, season) == FALSE

\* models.py line 193: the unique index of the OneToOneField refuses a
\* second row for the season
UniqueViolation(rows, season) ==
    \E k \in 1..Len(rows) : rows[k].season = season

\* lines 136-145: the Season is looked up, the one-to-one check is made and
\* the payload is validated
CheckSeason(q) ==
    /\ creates[q].pc = "idle"
    /\ \E sid \in SeasonIds : \E w \in ScheduleWeeks :
          LET answer(code) ==
                  [pc |-> "done", season |-> sid, num_weeks |-> w,
                   response |-> code]
          IN creates' = [creates EXCEPT ![q] =
                 IF sid \notin Seasons THEN answer(404)
                 ELSE IF HasSchedule(schedule_rows, sid) THEN answer(400)
                 ELSE IF w = NULL THEN answer(400)
                 ELSE [pc |-> "insert", season |-> sid, num_weeks |-> w,
                       response |-> NULL]]
    /\ UNCHANGED <<svars, rvars, in_flight, schedule_rows, team_players>>

\* lines 146-147: serializer.save(season=season) inserts the row; an
\* IntegrityError is not caught and the request is answered 500
InsertSchedule(q) ==
    /\ creates[q].pc = "insert"
    /\ IF UniqueViolation(schedule_rows, creates[q].season)
       THEN /\ creates' = [creates EXCEPT ![q].pc = "done",
                                          ![q].response = 500]
            /\ UNCHANGED schedule_rows
       ELSE /\ schedule_rows' =
                   Append(schedule_rows,
                          [season |-> creates[q].season,
                           num_weeks |-> creates[q].num_weeks])
            /\ creates' = [creates EXCEPT ![q].pc = "done",
                                          ![q].response = 201]
    /\ UNCHANGED <<svars, rvars, in_flight, team_players>>

CreateInit ==
    /\ SchedIdle
    /\ ResultIdle
    /\ in_flight = <<>>
    /\ schedule_rows = <<>>
    /\ creates = [q \in CreateRequests |-> NoCreate]
    /\ team_players = <<>>

CreateNext ==
    \/ \E q \in CreateRequests : CheckSeason(q)
    \/ \E q \in CreateRequests : InsertSchedule(q)

CreateSpec == CreateInit /\ [][CreateNext]_vars

\* ------------------------------------------------------------------------
\* A Match completed while one of its race-to values is missing
\* ------------------------------------------------------------------------
PartialRaceTos == {NULL, 2}    \* race-to values written, NULL: left unset

\* a request that loads the match, assigns the given fields and saves it
PartialRequest(op, loaded) ==
    LET sv == MatchSave(loaded, rosters)
    IN /\ WithinCaps(sv.rosters)
       /\ last_op' = [op |-> op, game |-> "none",
                     before |-> match.status, raised |-> sv.raised]
       /\ IF sv.raised
          THEN UNCHANGED <<match, rosters>>
          ELSE /\ match' = sv.match
               /\ rosters' = sv.rosters
       /\ UNCHANGED <<games, players>>
       /\ UNCHANGED <<svars, cvars>>

\* the race-to values of the match are written, each one possibly unset
SetPartialRaceTo ==
    \E hr \in PartialRaceTos : \E ar \in PartialRaceTos :
        PartialRequest("set_race_to",
                       [match EXCEPT !.home_race_to = hr,
                                     !.away_race_to = ar])

\* the match is marked completed with its two scores
CompletePartialMatch ==
    \E hs \in MatchScores : \E as \in MatchScores :
        PartialRequest("complete_match",
                       [match EXCEPT !.status = "completed",
                                     !.home_score = hs,
                                     !.away_score = as])

PartialInit ==
    /\ SchedIdle
    /\ ResultIdle
    /\ RequestsIdle

PartialNext ==
    \/ SetPartialRaceTo
    \/ CompletePartialMatch

PartialSpec == PartialInit /\ [][PartialNext]_vars

\* ------------------------------------------------------------------------
\* TeamPlayerSerializer.create and the update of a TeamPlayer
\* ------------------------------------------------------------------------
MaxTeamPlayers == 3            \* cap on the number of TeamPlayer rows
RequestHandicaps == {NULL, 3, 4}  \* handicap of a payload, NULL: absent
RequestWins == {NULL, 1}       \* wins (and losses) of a payload

\* models.py lines 172-183: the fields of TeamPlayer
TeamPlayerFields ==
    {"id", "team_season", "player", "handicap", "wins", "losses",
     "is_captain", "is_active"}

\* order_by(name) on TeamPlayer raises FieldError for a name it cannot
\* resolve into a field
OrderByRaises(name) == name \notin TeamPlayerFields

RowsOf(rows, p) == {k \in 1..Len(rows) : rows[k].player = p}

\* unique_together = ('team_season', 'player')
Duplicate(rows, ts, p) ==
    \E k \in 1..Len(rows) : rows[k].team_season = ts /\ rows[k].player = p

\* team/serializers.py lines 25-37 under perform_create: the outcome of a
\* POST for player p on roster ts with the given payload
SerializerCreate(rows, ts, p, h, w) ==
    IF h = NULL /\ OrderByRaises("created_at")
    THEN [raised |-> TRUE, rows |-> rows]
    ELSE IF Duplicate(rows, ts, p)
    THEN [raised |-> TRUE, rows |-> rows]
    ELSE [raised |-> FALSE,
          rows |-> Append(rows, [team_season |-> ts, player |-> p,
                                 handicap |-> h, wins |-> 0, losses |-> 0])]

CreateTeamPlayer ==
    /\ Len(team_players) < MaxTeamPlayers
    /\ \E ts \in Rosters : \E p \in Players :
       \E h \in RequestHandicaps : \E w \in RequestWins :
          LET sv == SerializerCreate(team_players, ts, p, h, w)
          IN /\ team_players' = sv.rows
             /\ last_op' = [op |-> "create_team_player", team_season |-> ts,
                            player |-> p, handicap |-> h, wins |-> w,
                            raised |-> sv.raised]
    /\ UNCHANGED <<match, games, rosters, players>>
    /\ UNCHANGED <<svars, in_flight, schedule_rows, creates>>

\* team/views.py lines 25-31: a PATCH of handicap, wins and losses
PatchTeamPlayer ==
    /\ \E k \in 1..Len(team_players) :
       \E h \in RequestHandicaps \ {NULL} : \E w \in RequestWins \ {NULL} :
          /\ team_players' = [team_players EXCEPT ![k].handicap = h,
                                                  ![k].wins = w,
                                                  ![k].losses = w]
          /\ last_op' = [op |-> "patch_team_player",
                         team_season |-> team_players[k].team_season,
                         player |-> team_players[k].player,
                         handicap |-> h, wins |-> w, raised |-> FALSE]
    /\ UNCHANGED <<match, games, rosters, players>>
    /\ UNCHANGED <<svars, in_flight, schedule_rows, creates>>

MemberInit ==
    /\ SchedIdle
    /\ ResultIdle
    /\ RequestsIdle

MemberNext ==
    \/ CreateTeamPlayer
    \/ PatchTeamPlayer

MemberSpec == MemberInit /\ [][MemberNext]_vars

\* ------------------------------------------------------------------------
\* Two Games completed one after the other under a Match with race-to 1 or 2
\* ------------------------------------------------------------------------
ChainRaceTos == {1, 2}         \* race-to values written by a match request
ChainScores == {0, 1}          \* scores written by a game request

\* a game of the match is marked completed with its two scores
CompleteChainGame ==
    \E g \in ConcGames : \E hs \in ChainScores : \E as \in ChainScores :
        GameRequest(g, [games[g] EXCEPT !.status = "completed",
                                        !.home_score = hs,
                                        !.away_score = as])

\* the race-to values of the match are written
SetChainRaceTo ==
    \E rt \in ChainRaceTos :
        MatchRequest([match EXCEPT !.home_race_to = rt, !.away_race_to = rt])

\* the rows before any game request: a new match, or a match with race-to
\* 1 that a match request has completed 0-2
ChainStart ==
    LET rs == [r \in Rosters |-> NewRoster]
    IN {MatchSave(NewMatch, rs),
        MatchSave([NewMatch EXCEPT !.home_race_to = 1, !.away_race_to = 1,
                                   !.status = "completed",
                                   !.home_score = 0, !.away_score = 2], rs)}

ChainInit ==
    /\ SchedIdle
    /\ \E st \in ChainStart : match = st.match /\ rosters = st.rosters
    /\ games = [g \in ConcGames |-> NewGame(NULL)]
    /\ players = [p \in Players |-> NewPlayer(3)]
    /\ last_op = NoOp
    /\ RequestsIdle

ChainNext ==
    \/ CompleteChainGame
    \/ SetChainRaceTo

ChainSpec == ChainInit /\ [][ChainNext]_vars

\* ------------------------------------------------------------------------
\* Properties of the result state machine
\* ------------------------------------------------------------------------
NullAsZero(x) == IF x = NULL THEN 0 ELSE x
GameSaved(g) ==
    last_op'.op = "game_save" /\ last_op'.game = g /\ ~last_op'.raised
\* the step ran Match.save to its end: a match request, or a game request
\* whose update_game_winner resolved the winner and saved the parent match
MatchSaved ==
    /\ ~last_op'.raised
    /\ \/ last_op'.op = "match_save"
       \/ /\ last_op'.op = "game_save"
          /\ games[last_op'.game].winner = NoWinner
          /\ games'[last_op'.game].winner # NoWinner
RaceTosSet(m) == m.home_race_to # NULL /\ m.away_race_to # NULL

\* C6: saving an already-completed Game again with the same scores leaves
\* the parent Match's home_score and away_score as they are.
C6_ResaveDoesNotScoreAgain ==
    [][\A g \in Games :
          (/\ GameSaved(g)
           /\ games[g].status = "completed"
           /\ games'[g].home_score = games[g].home_score
           /\ games'[g].away_score = games[g].away_score) =>
              (/\ match'.home_score = match.home_score
               /\ match'.away_score = match.away_score)]_vars

\* a completed game won by home has been saved again and the match, still
\* not completed, holds the single point of that game
C6_Witness ==
    /\ last_op = [op |-> "game_save", game |-> "g1",
                  before |-> "completed", raised |-> FALSE]
    /\ games["g1"].winner = "home"
    /\ games["g1"].home_score = 2
    /\ match.status = "Scheduled"
    /\ match.home_score = 1
    /\ match.away_score = 0

\* C7: when a Game's completion resolves to winner home (away), the parent
\* Match's home_score (away_score) grows by exactly 1, a null score counting
\* as 0, and the other side's score gains nothing.
C7_GameWinAddsOnePoint ==
    [][\A g \in Games :
          (GameSaved(g) /\ games[g].winner = NoWinner) =>
              /\ games'[g].winner = "home" =>
                    /\ match'.home_score = NullAsZero(match.home_score) + 1
                    /\ match'.away_score = NullAsZero(match.away_score)
              /\ games'[g].winner = "away" =>
                    /\ match'.away_score = NullAsZero(match.away_score) + 1
                    /\ match'.home_score = NullAsZero(match.home_score)]_vars

\* a game with raw score 2-0 has just been resolved to home, and the match,
\* which a match request had left at 0-2, stands at 1-2
C7_Witness ==
    /\ last_op = [op |-> "game_save", game |-> "g1",
                  before |-> "Scheduled", raised |-> FALSE]
    /\ games["g1"].winner = "home"
    /\ games["g1"].home_score = 2
    /\ match.home_score = 1
    /\ match.away_score = 2

\* C8: a Match saved as completed with both scores and both race-to values
\* set has winner home if home_score >= home_race_to, else away if
\* away_score >= away_race_to; when neither holds the save sets no winner and
\* changes no roster counter.
C8_MatchWinnerByRaceTo ==
    [][(/\ MatchSaved
        /\ match'.status = "completed"
        /\ BothScoresSet(match')
        /\ RaceTosSet(match')) =>
           IF match'.home_score >= match'.home_race_to
           THEN match'.winner = "home"
           ELSE IF match'.away_score >= match'.away_race_to
           THEN match'.winner = "away"
           ELSE match'.winner = match.winner /\ rosters' = rosters]_vars

\* a match completed with both sides at their race-to: home takes it
C8_Witness ==
    /\ last_op.op = "match_save"
    /\ ~last_op.raised
    /\ match.status = "completed"
    /\ match.home_score = 2 /\ match.home_race_to = 2
    /\ match.away_score = 2 /\ match.away_race_to = 2
    /\ match.winner = "home"

\* C9: the completion that first determines a Match's winner adds 1 to the
\* winner's wins and its own match score to its games_won, 1 to the loser's
\* losses and its own match score to its games_lost, and nothing else to any
\* roster.
C9_FirstCompletionUpdatesRecords ==
    [][(match.winner = NoWinner /\ match'.winner # NoWinner) =>
          LET win == IF match'.winner = "home" THEN match'.home_team
                     ELSE match'.away_team
              lose == IF match'.winner = "home" THEN match'.away_team
                      ELSE match'.home_team
              win_score == IF match'.winner = "home" THEN match'.home_score
                           ELSE match'.away_score
              lose_score == IF match'.winner = "home" THEN match'.away_score
                            ELSE match'.home_score
          IN \A r \in Rosters :
               /\ rosters'[r].wins =
                      rosters[r].wins + (IF r = win THEN 1 ELSE 0)
               /\ rosters'[r].games_won =
                      rosters[r].games_won + (IF r = win THEN win_score ELSE 0)
               /\ rosters'[r].losses =
                      rosters[r].losses + (IF r = lose THEN 1 ELSE 0)
               /\ rosters'[r].games_lost =
                      rosters[r].games_lost
                          + (IF r = lose THEN lose_score ELSE 0)]_vars

\* a match first completed 2-2: the home roster won it
C9_Witness ==
    /\ last_op = [op |-> "match_save", game |-> "none",
                  before |-> "Scheduled", raised |-> FALSE]
    /\ match.winner = "home"
    /\ match.home_score = 2 /\ match.away_score = 2
    /\ rosters["r1"] =
           [wins |-> 1, losses |-> 0, games_won |-> 2, games_lost |-> 0]
    /\ rosters["r2"] =
           [wins |-> 0, losses |-> 1, games_won |-> 0, games_lost |-> 2]
    /\ rosters["r3"] = NewRoster

\* C10: once a Match's team_snapshot (a Game's player_snapshot) has been
\* written, no later step alters it.
C10_SnapshotsWriteOnce ==
    [][/\ match.team_snapshot # NoSnapshot =>
              match'.team_snapshot = match.team_snapshot
       /\ \A g \in Games :
              games[g].player_snapshot # NoSnapshot =>
                  games'[g].player_snapshot = games[g].player_snapshot]_vars

\* C11: the team_snapshot written by the save that first completes a Match
\* holds, for each side, the wins, losses, games_won and games_lost the
\* roster had before that save's own increments.
C11_SnapshotBeforeIncrements ==
    [][(/\ MatchSaved
        /\ match.status # "completed"
        /\ match'.status = "completed") =>
           \A side \in {"home_team", "away_team"} :
               LET snap == match'.team_snapshot[side]
                   before == rosters[match'[side]]
               IN /\ snap.wins = before.wins
                  /\ snap.losses = before.losses
                  /\ snap.games_won = before.games_won
                  /\ snap.games_lost = before.games_lost]_vars

\* a match first completed 2-0 for home: the roster rows carry the win and
\* the loss, the snapshot carries the counters from before them
C11_Witness ==
    /\ last_op = [op |-> "match_save", game |-> "none",
                  before |-> "Scheduled", raised |-> FALSE]
    /\ match.status = "completed"
    /\ match.winner = "home"
    /\ rosters["r1"].wins = 1 /\ rosters["r1"].games_won = 2
    /\ rosters["r2"].losses = 1
    /\ match.team_snapshot.home_team.wins = 0
    /\ match.team_snapshot.home_team.games_won = 0
    /\ match.team_snapshot.away_team.losses = 0

\* C12: completing a Match that has lineups and unset race-to values sets
\* both race-to values from the lineups and decides the winner against them
\* (lineups [5,5] and [2,2] give 20 and 26, and 20-10 is then a home win
\* worth 1 win and 20 games_won to the home roster); race-to values already
\* set are left as they are.
C12_CompletionComputesRaceTo ==
    [][last_op'.op = "complete_match" =>
          IF match.lineups # NoLineups
             /\ match.home_race_to = NULL /\ match.away_race_to = NULL
          THEN LET hr == RaceTo(SumHandicaps(match.lineups.home_team))
                   ar == RaceTo(SumHandicaps(match.lineups.away_team))
               IN /\ ~last_op'.raised
                  /\ match'.status = "completed"
                  /\ match'.home_race_to = hr
                  /\ match'.away_race_to = ar
                  /\ match'.home_score >= hr => match'.winner = "home"
                  /\ (/\ match.lineups.home_team = <<5, 5>>
                      /\ match.lineups.away_team = <<2, 2>>
                      /\ match'.home_score = 20
                      /\ match'.away_score = 10) =>
                         /\ hr = 20 /\ ar = 26
                         /\ match'.winner = "home"
                         /\ rosters'["r1"].wins = rosters["r1"].wins + 1
                         /\ rosters'["r1"].games_won =
                                rosters["r1"].games_won + 20
          ELSE RaceTosSet(match) =>
                  /\ match'.home_race_to = match.home_race_to
                  /\ match'.away_race_to = match.away_race_to]_vars

\* C13: calculate_race_to sets each side's race-to to max(20, 30 - s), s the
\* sum of the handicaps of that side's own lineup: never below 20, never
\* below 30 - s, one of the two, 30 at s = 0 and 20 from s = 10 on.
C13_RaceToFromOwnLineup ==
    [][(last_op'.op = "calculate_race_to" /\ match.lineups # NoLineups) =>
          /\ ~last_op'.raised
          /\ \A side \in {"home", "away"} :
                LET l == IF side = "home" THEN match.lineups.home_team
                         ELSE match.lineups.away_team
                    s == SumHandicaps(l)
                    rt == IF side = "home" THEN match'.home_race_to
                          ELSE match'.away_race_to
                IN /\ rt >= 20
                   /\ rt >= 30 - s
                   /\ rt = 20 \/ rt = 30 - s
                   /\ s = 0 => rt = 30
                   /\ s >= 10 => rt = 20]_vars

\* race-to computed for lineups [6,5] (s = 11, floor 20) and [2,2] (s = 4)
C13_Witness ==
    /\ last_op.op = "calculate_race_to"
    /\ match.lineups = [home_team |-> <<6, 5>>, away_team |-> <<2, 2>>]
    /\ match.home_race_to = 20
    /\ match.away_race_to = 26

\* C14: a Game saved as completed with both scores set and no winner yet
\* gets race-to values of 1 where they were unset and the winner home if
\* home_score >= home_race_to, else away if away_score >= away_race_to, else
\* tie; a Game that already has a winner keeps it.
C14_GameWinnerByRaceTo ==
    [][\A g \in Games :
          (GameSaved(g) /\ games'[g].status = "completed") =>
              /\ games[g].winner # NoWinner =>
                     games'[g].winner = games[g].winner
              /\ (games[g].winner = NoWinner /\ BothScoresSet(games'[g])) =>
                     LET hr == IF games[g].home_race_to = NULL THEN 1
                               ELSE games[g].home_race_to
                         ar == IF games[g].away_race_to = NULL THEN 1
                               ELSE games[g].away_race_to
                     IN /\ games'[g].home_race_to = hr
                        /\ games'[g].away_race_to = ar
                        /\ games'[g].winner =
                               IF games'[g].home_score >= hr THEN "home"
                               ELSE IF games'[g].away_score >= ar THEN "away"
                               ELSE "tie"]_vars

\* a game created without race-to values, completed 1-1: both race-to
\* values defaulted to 1 and home, tested first, is the winner
C14_Witness ==
    /\ last_op = [op |-> "game_save", game |-> "g1",
                  before |-> "Scheduled", raised |-> FALSE]
    /\ games["g1"].home_score = 1 /\ games["g1"].away_score = 1
    /\ games["g1"].home_race_to = 1 /\ games["g1"].away_race_to = 1
    /\ games["g1"].winner = "home"

\* C15: when two Games of the Match are completed concurrently and each
\* resolves to home or away, the Match ends with home_score and away_score
\* equal to the numbers of its Games won by home and by away.
C15_NoLostIncrement ==
    (\A g \in ConcGames :
        in_flight[g].pc = "done" /\ games[g].winner \in {"home", "away"}) =>
        /\ match.home_score =
               Cardinality({g \in ConcGames : games[g].winner = "home"})
        /\ match.away_score =
               Cardinality({g \in ConcGames : games[g].winner = "away"})

\* C16: a result transition is all-or-nothing: when the save of a
\* completing Game fails the parent Match's scores are as before, and when
\* the save of a completing Match fails every roster's wins, losses,
\* games_won and games_lost are as before.
C16_AllOrNothing ==
    [][last_op'.raised =>
          /\ last_op'.op = "game_save" =>
                 /\ match'.home_score = match.home_score
                 /\ match'.away_score = match.away_score
          /\ last_op'.op = "match_save" => rosters' = rosters]_vars

\* ------------------------------------------------------------------------
\* Properties of the generated fixture list
\* ------------------------------------------------------------------------
NightDates == {GetNextMatchDate(k) : k \in 0..(num_weeks - 1)}
PairOf(k) == Matchup(matches[k].home_team, matches[k].away_team)
AllPairings ==
    {Matchup(m[1], m[2]) : m \in SeqToSet(GenerateAllMatchups(num_teams))}
HomeCount(t) == Cardinality({k \in 1..Len(matches) : matches[k].home_team = t})
AwayCount(t) == Cardinality({k \in 1..Len(matches) : matches[k].away_team = t})
MatchesOn(t, d) ==
    {k \in 1..Len(matches) :
        matches[k].match_night = d /\ t \in PairOf(k)}
Abs(x) == IF x < 0 THEN -x ELSE x
RunCompleted == pc = "done" /\ response = 201

\* C1: with an even number n >= 4 of rosters, reading the Match rows in
\* creation order, no pairing occurs a second time before every one of the
\* n*(n-1)/2 pairings has occurred once.
C1_NoRepeatBeforeAllPlayed ==
    (num_teams >= 4 /\ num_teams % 2 = 0) =>
        \A k \in 1..Len(matches) : \A j \in 1..(k - 1) :
            PairOf(j) = PairOf(k) =>
                AllPairings \subseteq {PairOf(i) : i \in 1..(k - 1)}

\* C2: no roster appears, as home or as away, in more than one Match of the
\* same MatchNight.
C2_NoDoubleBooking ==
    \A k \in 1..Len(matches) :
        /\ matches[k].home_team # matches[k].away_team
        /\ \A j \in 1..(k - 1) :
              matches[j].match_night = matches[k].match_night =>
                  PairOf(j) \cap PairOf(k) = {}

\* a finished run over four rosters in which a matchup was passed over
\* because one of its rosters already played that night
C2_Witness ==
    /\ RunCompleted
    /\ num_teams = 4
    /\ Len(matches) >= 4
    /\ matchup_index > Len(matches)

\* C3: after a run with n even and W a multiple of n-1, every roster has
\* |home_count - away_count| <= 1.
C3_HomeAwayBalanced ==
    (/\ RunCompleted
     /\ num_teams >= 2
     /\ num_teams % 2 = 0
     /\ num_weeks % (num_teams - 1) = 0) =>
        \A t \in Teams(num_teams) : Abs(HomeCount(t) - AwayCount(t)) <= 1

\* C4: for an even number of rosters a run creates exactly the W MatchNights
\* dated start_date + 7*k, k = 0..W-1, every roster plays exactly one Match
\* on each of them, and n*W/2 matches exist in total.
C4_WeeklyNightsEveryRosterOnce ==
    (pc = "done" /\ schedule_exists /\ num_teams % 2 = 0) =>
        /\ match_nights = NightDates
        /\ \A d \in NightDates : \A t \in Teams(num_teams) :
              Cardinality(MatchesOn(t, d)) = 1
        /\ 2 * Len(matches) = num_teams * num_weeks

\* C5: GenerateSchedule on an existing schedule with an even number n >= 2 of
\* rosters answers 201 and leaves Match rows persisted.
C5_GenerateAnswers201 ==
    (/\ pc = "done"
     /\ schedule_exists
     /\ num_teams >= 2
     /\ num_teams % 2 = 0
     /\ num_weeks >= 1) =>
        (response = 201 /\ Len(matches) > 0)

\* C17: a reader of the store never sees a partial fixture list: at every
\* moment of a GenerateSchedule run, and after it, the MatchNight and Match
\* rows of the schedule are either none or all of those the run creates.
C17_NoPartialFixtureList ==
    \/ match_nights = {} /\ matches = <<>>
    \/ /\ match_nights = NightDates
       /\ Len(matches) = num_weeks * (num_teams \div 2)

IdleOn(d) == {t \in Teams(num_teams) : MatchesOn(t, d) = {}}
NightsComplete ==
    /\ response = 201
    /\ match_nights = NightDates
    /\ \A d \in NightDates :
          /\ Cardinality({k \in 1..Len(matches) : matches[k].match_night = d})
                 = (num_teams - 1) \div 2
          /\ Cardinality(IdleOn(d)) = 1
OddRun ==
    pc = "done" /\ schedule_exists /\ num_teams >= 3 /\ num_teams % 2 = 1

\* C19 as stated: with an odd number n >= 3 of rosters the run completes,
\* each MatchNight holds (n-1)/2 matches and exactly one roster is idle on
\* each night.
C19_OddRostersComplete == OddRun => NightsComplete

\* C19: with an odd number n >= 3 of rosters and assert statements enabled
\* the run stops at the parity assertion, is answered 500 and creates no
\* MatchNight and no Match; with assert statements stripped it completes,
\* each MatchNight holds (n-1)/2 matches and one roster is idle per night.
C19_OddRostersAssertOrComplete ==
    OddRun =>
        IF optimize
        THEN NightsComplete
        ELSE response = 500 /\ match_nights = {} /\ matches = <<>>

\* three rosters, three weeks, asserts enabled: answered 500, nothing created
C19_Witness ==
    /\ OddRun
    /\ ~optimize
    /\ num_teams = 3
    /\ num_weeks = 3
    /\ response = 500
    /\ matches = <<>>

\* C20: generation for a season with fewer than 2 rosters fails with an
\* error and creates no MatchNight and no Match row.
C20_TooFewRostersRejected ==
    (pc = "done" /\ schedule_exists /\ num_teams < 2) =>
        /\ response # 201
        /\ match_nights = {}
        /\ matches = <<>>

\* C18: whatever the interleaving of schedule-creation requests, no Season
\* ever has two Schedule rows, and a request that ends while its season has
\* a Schedule is refused (400 or 500) and leaves the Schedule rows as they
\* are.
C18_OneSchedulePerSeason ==
    [][/\ \A j \in 1..Len(schedule_rows') : \A k \in 1..Len(schedule_rows') :
              schedule_rows'[j].season = schedule_rows'[k].season => j = k
       /\ \A q \in CreateRequests :
              (/\ creates[q].pc # "done"
               /\ creates'[q].pc = "done"
               /\ \E k \in 1..Len(schedule_rows) :
                      schedule_rows[k].season = creates'[q].season) =>
                  /\ creates'[q].response \in {400, 500}
                  /\ schedule_rows' = schedule_rows]_vars

\* two requests for season s1 both passed the one-to-one check; the first
\* insert was answered 201, the second was refused by the unique index
C18_Witness ==
    /\ creates["q1"] = [pc |-> "done", season |-> "s1", num_weeks |-> 2,
                        response |-> 201]
    /\ creates["q2"] = [pc |-> "done", season |-> "s1", num_weeks |-> 2,
                        response |-> 500]
    /\ schedule_rows = <<[season |-> "s1", num_weeks |-> 2]>>

\* C21: completing a Match with both scores set while a race-to value is
\* missing fails, and leaves the Match row and every roster's counters as
\* they were.
C21_MissingRaceToRejected ==
    [][(/\ last_op'.op = "complete_match"
        /\ match.home_race_to = NULL \/ match.away_race_to = NULL) =>
           /\ last_op'.raised
           /\ match' = match
           /\ rosters' = rosters]_vars

PairingCount(pr) == Cardinality({k \in 1..Len(matches) : PairOf(k) = pr})

\* C22 as stated: in the fixture list of one run over n rosters and W weeks
\* every unordered pairing of rosters appears at least floor(2*W / n) times.
C22_EveryPairingOftenEnough ==
    (pc = "done" /\ schedule_exists /\ num_teams >= 2) =>
        \A pr \in AllPairings :
            PairingCount(pr) >= (2 * num_weeks) \div num_teams

\* C22: a run over n >= 2 rosters that is answered 201 leaves W * (n div 2)
\* matches, each of them one of the n*(n-1)/2 pairings, so that the pairing
\* counts sum to W * (n div 2); for n = 2 the one pairing appears exactly W
\* times; a run that is not answered 201 leaves no match.
C22_PairingCountsSum ==
    (pc = "done" /\ schedule_exists /\ num_teams >= 2) =>
        IF response = 201
        THEN /\ \A k \in 1..Len(matches) : PairOf(k) \in AllPairings
             /\ Len(matches) = num_weeks * (num_teams \div 2)
             /\ num_teams = 2 =>
                    \A pr \in AllPairings : PairingCount(pr) = num_weeks
        ELSE matches = <<>>

\* a finished run over four rosters and three weeks, six matches for six
\* pairings, in which one pairing was played twice and another never
C22_Witness ==
    /\ RunCompleted
    /\ num_teams = 4
    /\ num_weeks = 3
    /\ \E pr \in AllPairings : PairingCount(pr) = 0
    /\ \E pr \in AllPairings : PairingCount(pr) = 2

\* C23: after a run for an even number of rosters, whatever the shuffles
\* left, every roster's numbers of home and of away matches differ by at
\* most 3.
C23_HomeAwayWithinThree ==
    (pc = "done" /\ schedule_exists /\ num_teams % 2 = 0) =>
        \A t \in Teams(num_teams) : Abs(HomeCount(t) - AwayCount(t)) <= 3

LatestRow(rows, p) ==
    CHOOSE k \in RowsOf(rows, p) : \A j \in RowsOf(rows, p) : j <= k

\* C24: a TeamPlayer created for a player on a roster the player is not yet
\* on takes the handicap of the request when it has one, else the current
\* handicap of the player's most recently created TeamPlayer, else 3; its
\* wins and losses are 0 whatever the earlier rows hold.
C24_HandicapInherited ==
    [][(/\ last_op'.op = "create_team_player"
        /\ ~Duplicate(team_players, last_op'.team_season, last_op'.player)) =>
           /\ ~last_op'.raised
           /\ Len(team_players') = Len(team_players) + 1
           /\ LET new == team_players'[Len(team_players')]
                  p == last_op'.player
              IN /\ new.player = p
                 /\ new.wins = 0 /\ new.losses = 0
                 /\ new.handicap =
                        IF last_op'.handicap # NULL THEN last_op'.handicap
                        ELSE IF RowsOf(team_players, p) # {}
                        THEN team_players[LatestRow(team_players, p)].handicap
                        ELSE 3]_vars

HomeDiffBefore(t, k) ==
    Cardinality({j \in 1..(k - 1) : matches[j].home_team = t})
        - Cardinality({j \in 1..(k - 1) : matches[j].away_team = t})

\* C25: in every match the home roster is the one of the two whose
\* home_count - away_count was lower when the match was scheduled, and at
\* equal differentials it is the first roster of the pairing.
C25_LowerDifferentialIsHome ==
    \A k \in 1..Len(matches) :
        LET h == matches[k].home_team
            a == matches[k].away_team
        IN \/ HomeDiffBefore(h, k) < HomeDiffBefore(a, k)
           \/ HomeDiffBefore(h, k) = HomeDiffBefore(a, k) /\ h < a

\* C26: completing Games under a Match that is not completed changes
\* neither the Match's status, winner or team_snapshot nor any roster
\* counter, even when the Match's score reaches its race-to; of the Match
\* only home_score and away_score change.
C26_GamesDoNotCompleteMatch ==
    [][(/\ last_op'.op = "game_save"
        /\ ~last_op'.raised
        /\ match.status # "completed") =>
           /\ match' = [match EXCEPT !.home_score = match'.home_score,
                                     !.away_score = match'.away_score]
           /\ rosters' = rosters]_vars

\* both games of a scheduled match with race-to 1 were won by home: the
\* match stands at 2-0, past its race-to, with no winner and no roster
\* counter touched
C26_Witness ==
    /\ last_op.op = "game_save"
    /\ \A g \in ConcGames : games[g].winner = "home"
    /\ match.status = "Scheduled"
    /\ match.home_race_to = 1
    /\ match.home_score = 2
    /\ match.winner = NoWinner
    /\ match.team_snapshot = NoSnapshot
    /\ \A r \in Rosters : rosters[r] = NewRoster

\* the number of completed Matches whose winner marker is w: the model
\* holds one Match
CompletedWith(w) ==
    IF match.status = "completed" /\ match.winner = w THEN 1 ELSE 0

\* C27: after any sequence of Match saves and Game completions every
\* completed Match with a winner has contributed exactly once to the roster
\* records: a roster's wins is the number of completed Matches whose winner
\* marker designates it, its losses the number of completed Matches it lost.
C27_MatchCountedOnce ==
    /\ rosters[match.home_team].wins = CompletedWith("home")
    /\ rosters[match.home_team].losses = CompletedWith("away")
    /\ rosters[match.away_team].wins = CompletedWith("away")
    /\ rosters[match.away_team].losses = CompletedWith("home")

\* C28: once the winner marker of a completed Match is 'home' or 'away', no
\* later Game completion under the Match and no later save of the Match
\* changes it to the other side.
C28_WinnerNeverFlips ==
    [][match.status = "completed" =>
          /\ match.winner = "home" => match'.winner # "away"
          /\ match.winner = "away" => match'.winner # "home"]_vars

\* the matches created for the night of date d
NightMatches(d) == {k \in 1..Len(matches) : matches[k].match_night = d}

\* C29: every generate_schedule run for n >= 2 rosters terminates, whatever
\* W and whatever the shuffles leave, and a run that got to its loops has
\* found the n // 2 matches of each of the W nights.
C29_RunTerminates ==
    (num_teams >= 2) =>
        <>(/\ pc = "done"
           /\ response = 201 =>
                 /\ match_nights = NightDates
                 /\ \A d \in NightDates :
                       Cardinality(NightMatches(d)) = num_teams \div 2)

\* a run for four rosters over three nights has ended after the list of
\* six pairings was exhausted and reshuffled: six matches were created,
\* pairings were skipped, and the index stands at 2 in the reshuffled list
C29_Witness ==
    /\ RunCompleted
    /\ num_teams = 4
    /\ num_weeks = 3
    /\ Len(matches) = 6
    /\ matchup_index = 2

\* the request completed game g and its winner resolved to 'tie'
TieResolved(g) ==
    /\ last_op'.op = "game_save"
    /\ last_op'.game = g
    /\ ~last_op'.raised
    /\ games[g].winner = NoWinner
    /\ games'[g].winner = "tie"

\* C30: completing a Game that resolves to 'tie' leaves the parent Match's
\* home_score and away_score as they were, a null score staying null, and
\* changes no other field of the Match.
C30_TieLeavesMatchAlone ==
    [][\A g \in ConcGames : TieResolved(g) => match' = match]_vars

====
